---- MODULE Spec2Model ----
(***************************************************************************)
(* CipherGuard DAO: Shamir secret sharing of an AES-GCM key                *)
(* (src/services/cryptoService.ts) and the owner / recovery flows of the   *)
(* App component (src/unnamed/part_000, the current App; src/App.tsx is an *)
(* earlier revision of the same component).                                *)
(*                                                                         *)
(* Scaling.  TLC integers are 32 bit, so the field and the encodings are   *)
(* scaled down, keeping every relation the code relies on:                 *)
(*   PRIME_MODULUS  2^521 - 1        ->  2^5 - 1   (a Mersenne prime)      *)
(*   hex radix      16               ->  2         (digits "0", "1")       *)
(*   byte           2 hex digits     ->  2 digits  (values 0..3)           *)
(*   AES key        32 bytes         ->  2 bytes   (values 0..15 < P)      *)
(*   IV             12 bytes         ->  1 byte                            *)
(*   random draw    66 bytes         ->  6 bits    (more bits than P has)  *)
(* A string is a sequence of one-character strings.                        *)
(***************************************************************************)
EXTENDS Integers, Sequences, FiniteSets, TLC

\* ------------------------------------------------------------------------
\* Program constants (scaled as described above)
\* ------------------------------------------------------------------------
PRIME_MODULUS == (2 ^ 5) - 1

MAX_SHARES == 10

MIN_SHARES == 2

DEFAULT_CONFIG == [totalShares |-> 5, threshold |-> 3]

\* radix of toString(16) / BigInt("0x" + ...) / parseInt(.., 16)
HEX_RADIX == 2

HexDigits == <<"0", "1">>

\* padStart(2, "0") and the i += 2 stride of hexToBuffer
BYTE_HEX_DIGITS == 2

\* generateKey({name: "AES-GCM", length: 256}) exports KEY_BYTES bytes
KEY_BYTES == 2

\* new Uint8Array(12)
IV_BYTES == 1

\* new Uint8Array(66): the number of random bits behind one coefficient
RANDOM_BITS == 6

\* ------------------------------------------------------------------------
\* JavaScript primitives used by the service
\* ------------------------------------------------------------------------
Field == 0 .. (PRIME_MODULUS - 1)

ByteValues == 0 .. ((HEX_RADIX ^ BYTE_HEX_DIGITS) - 1)

\* BigInt %: the result has the sign of the dividend
JSMod(a, m) == IF a >= 0 THEN a % m ELSE 0 - ((0 - a) % m)

IsHexDigit(c) == \E i \in 1 .. Len(HexDigits) : HexDigits[i] = c

DigitValue(c) == (CHOOSE i \in 1 .. Len(HexDigits) : HexDigits[i] = c) - 1

\* v.toString(16) for v >= 0: natural length, no leading zero, "0" for zero
RECURSIVE ToHex(_)
ToHex(v) ==
    IF v < HEX_RADIX
    THEN <<HexDigits[v + 1]>>
    ELSE Append(ToHex(v \div HEX_RADIX), HexDigits[(v % HEX_RADIX) + 1])

RECURSIVE HexValue(_)
HexValue(s) ==
    IF s = <<>>
    THEN 0
    ELSE HexValue(SubSeq(s, 1, Len(s) - 1)) * HEX_RADIX + DigitValue(s[Len(s)])

\* the value interpolated by "0x" + undefined
Undefined == <<"undefined">>

\* BigIntHex with unparsable text read as zero (as parseInt's NaN would be)
BigIntHexLenient(s) ==
    IF s # <<>> /\ \A i \in 1 .. Len(s) : IsHexDigit(s[i])
    THEN [ok |-> TRUE, val |-> HexValue(s)]
    ELSE [ok |-> TRUE, val |-> 0]

\* BigInt("0x" + s): SyntaxError unless s is a non-empty run of hex digits
BigIntHex(s) ==
    IF s # <<>> /\ \A i \in 1 .. Len(s) : IsHexDigit(s[i])
    THEN [ok |-> TRUE, val |-> HexValue(s)]
    ELSE [ok |-> FALSE, val |-> 0]

\* s.split('-')
RECURSIVE SplitDash(_)
SplitDash(s) ==
    IF \A i \in 1 .. Len(s) : s[i] # "-"
    THEN <<s>>
    ELSE LET p == CHOOSE i \in 1 .. Len(s) :
                     s[i] = "-" /\ \A j \in 1 .. (i - 1) : s[j] # "-"
         IN  <<SubSeq(s, 1, p - 1)>> \o SplitDash(SubSeq(s, p + 1, Len(s)))

\* s.trim()
RECURSIVE Trim(_)
Trim(s) ==
    IF s = <<>> THEN s
    ELSE IF s[1] = " " THEN Trim(Tail(s))
    ELSE IF s[Len(s)] = " " THEN Trim(SubSeq(s, 1, Len(s) - 1))
    ELSE s

\* ------------------------------------------------------------------------
\* Utilities (cryptoService.ts)
\* ------------------------------------------------------------------------
\* b.toString(16).padStart(2, "0")
PadByte(h) == IF Len(h) < BYTE_HEX_DIGITS THEN <<"0">> \o h ELSE h

RECURSIVE bufferToHex(_)
bufferToHex(bytes) ==
    IF bytes = <<>>
    THEN <<>>
    ELSE PadByte(ToHex(Head(bytes))) \o bufferToHex(Tail(bytes))

\* parseInt(t, 16) stored into a Uint8Array: the longest hex prefix, NaN -> 0
RECURSIVE ParseIntHex(_, _)
ParseIntHex(t, acc) ==
    IF t = <<>> \/ ~IsHexDigit(Head(t))
    THEN acc
    ELSE ParseIntHex(Tail(t), acc * HEX_RADIX + DigitValue(Head(t)))

\* new Uint8Array(hex.length / 2) is a RangeError for an odd length
hexToBuffer(hex) ==
    IF Len(hex) % BYTE_HEX_DIGITS # 0
    THEN [ok |-> FALSE, bytes |-> <<>>]
    ELSE [ok |-> TRUE,
          bytes |-> [i \in 1 .. (Len(hex) \div BYTE_HEX_DIGITS) |->
                        ParseIntHex(SubSeq(hex, BYTE_HEX_DIGITS * (i - 1) + 1,
                                           BYTE_HEX_DIGITS * i), 0)]]

\* ------------------------------------------------------------------------
\* Shamir secret sharing (cryptoService.ts)
\* ------------------------------------------------------------------------
\* raw is the integer read from the random bytes
randomBigInt(raw) == raw % PRIME_MODULUS

RECURSIVE EvalPolyLoop(_, _, _, _, _)
EvalPolyLoop(coeffs, x, i, result, powerOfX) ==
    IF i > Len(coeffs)
    THEN result
    ELSE EvalPolyLoop(coeffs, x, i + 1,
                      (result + (coeffs[i] * powerOfX)) % PRIME_MODULUS,
                      (powerOfX * x) % PRIME_MODULUS)

\* evalPoly with the running power of x never advanced
evalPolyStuckPower(coeffs, x) == EvalPolyLoop(coeffs, 1, 1, 0, 1)

evalPoly(coeffs, x) == EvalPolyLoop(coeffs, x, 1, 0, 1)

\* splitSecret with the share loop running over x = 0 .. n - 1
splitSecretFromZero(secretHex, n, k, raws) ==
    LET secret == BigIntHex(secretHex)
        coeffs == <<secret.val>> \o [i \in 1 .. (k - 1) |-> randomBigInt(raws[i])]
    IN  IF ~secret.ok
        THEN [ok |-> FALSE, shares |-> <<>>]
        ELSE [ok |-> TRUE,
              shares |-> [i \in 1 .. n |->
                            [id |-> i,
                             data |-> ToHex(i - 1) \o <<"-">>
                                        \o ToHex(evalPoly(coeffs, i - 1))]]]

\* raws: the k - 1 raw random draws, in the order the loop makes them
splitSecret(secretHex, n, k, raws) ==
    LET secret == BigIntHex(secretHex)
        coeffs == <<secret.val>> \o [i \in 1 .. (k - 1) |-> randomBigInt(raws[i])]
    IN  IF ~secret.ok
        THEN [ok |-> FALSE, shares |-> <<>>]
        ELSE [ok |-> TRUE,
              shares |-> [i \in 1 .. n |->
                            [id |-> i,
                             data |-> ToHex(i) \o <<"-">> \o ToHex(evalPoly(coeffs, i))]]]

\* the while loop of modInverse; a / m with m = 0 is a RangeError
RECURSIVE ModInverseLoop(_, _, _, _)
ModInverseLoop(a, m, x, y) ==
    IF a > 1
    THEN IF m = 0
         THEN [ok |-> FALSE, x |-> 0]
         ELSE ModInverseLoop(m, a % m, y, x - ((a \div m) * y))
    ELSE [ok |-> TRUE, x |-> x]

\* modInverse without the final "if (x < 0n) x += m0"
modInverseSigned(a, m) ==
    IF m = 1
    THEN [ok |-> TRUE, x |-> 0]
    ELSE ModInverseLoop(a, m, 1, 0)

modInverse(a, m) ==
    IF m = 1
    THEN [ok |-> TRUE, x |-> 0]
    ELSE LET r == ModInverseLoop(a, m, 1, 0)
         IN  IF r.ok /\ r.x < 0 THEN [ok |-> TRUE, x |-> r.x + m] ELSE r

\* const [xHex, yHex] = s.data.split('-'); BigInt("0x" + xHex), BigInt("0x" + yHex)
ParsePoint(data) ==
    LET parts == SplitDash(data)
        xHex  == parts[1]
        yHex  == IF Len(parts) >= 2 THEN parts[2] ELSE Undefined
        px    == BigIntHex(xHex)
        py    == BigIntHex(yHex)
    IN  [ok |-> px.ok /\ py.ok, x |-> px.val, y |-> py.val]

\* BasisLoop with the difference xm - xj left negative
RECURSIVE BasisLoopRawDiff(_, _, _, _, _)
BasisLoopRawDiff(points, j, m, numerator, denominator) ==
    IF m > Len(points)
    THEN [numerator |-> numerator, denominator |-> denominator]
    ELSE IF m = j
    THEN BasisLoopRawDiff(points, j, m + 1, numerator, denominator)
    ELSE LET xm   == points[m].x
             diff == JSMod(xm - points[j].x, PRIME_MODULUS)
         IN  BasisLoopRawDiff(points, j, m + 1,
                              (numerator * xm) % PRIME_MODULUS,
                              JSMod(denominator * diff, PRIME_MODULUS))

\* BasisLoop with the numerator built from xj instead of xm
RECURSIVE BasisLoopOwnX(_, _, _, _, _)
BasisLoopOwnX(points, j, m, numerator, denominator) ==
    IF m > Len(points)
    THEN [numerator |-> numerator, denominator |-> denominator]
    ELSE IF m = j
    THEN BasisLoopOwnX(points, j, m + 1, numerator, denominator)
    ELSE LET xm   == points[m].x
             d0   == JSMod(xm - points[j].x, PRIME_MODULUS)
             diff == IF d0 < 0 THEN d0 + PRIME_MODULUS ELSE d0
         IN  BasisLoopOwnX(points, j, m + 1,
                           (numerator * points[j].x) % PRIME_MODULUS,
                           (denominator * diff) % PRIME_MODULUS)

\* the inner loop over m: numerator and denominator of L_j(0)
RECURSIVE BasisLoop(_, _, _, _, _)
BasisLoop(points, j, m, numerator, denominator) ==
    IF m > Len(points)
    THEN [numerator |-> numerator, denominator |-> denominator]
    ELSE IF m = j
    THEN BasisLoop(points, j, m + 1, numerator, denominator)
    ELSE LET xm   == points[m].x
             d0   == JSMod(xm - points[j].x, PRIME_MODULUS)
             diff == IF d0 < 0 THEN d0 + PRIME_MODULUS ELSE d0
         IN  BasisLoop(points, j, m + 1,
                       (numerator * xm) % PRIME_MODULUS,
                       (denominator * diff) % PRIME_MODULUS)

\* LagrangeLoop with each term weighted by its position in the list
RECURSIVE LagrangeLoopWeighted(_, _, _)
LagrangeLoopWeighted(points, j, secret) ==
    IF j > Len(points)
    THEN [ok |-> TRUE, secret |-> secret]
    ELSE LET b   == BasisLoop(points, j, 1, 1, 1)
             inv == modInverse(b.denominator, PRIME_MODULUS)
             term == JSMod(points[j].y * b.numerator * inv.x, PRIME_MODULUS)
         IN  IF ~inv.ok
             THEN [ok |-> FALSE, secret |-> 0]
             ELSE LagrangeLoopWeighted(points, j + 1,
                                       JSMod((secret * 2) + term, PRIME_MODULUS))

\* LagrangeLoop that leaves the first share's term out of the sum
RECURSIVE LagrangeLoopSkipsFirst(_, _, _)
LagrangeLoopSkipsFirst(points, j, secret) ==
    IF j > Len(points)
    THEN [ok |-> TRUE, secret |-> secret]
    ELSE LET b   == BasisLoop(points, j, 1, 1, 1)
             inv == modInverse(b.denominator, PRIME_MODULUS)
             term == IF j = 1
                     THEN 0
                     ELSE JSMod(points[j].y * b.numerator * inv.x, PRIME_MODULUS)
         IN  IF ~inv.ok
             THEN [ok |-> FALSE, secret |-> 0]
             ELSE LagrangeLoopSkipsFirst(points, j + 1,
                                         JSMod(secret + term, PRIME_MODULUS))

\* the outer loop over j: accumulates the secret
RECURSIVE LagrangeLoop(_, _, _)
LagrangeLoop(points, j, secret) ==
    IF j > Len(points)
    THEN [ok |-> TRUE, secret |-> secret]
    ELSE LET b   == BasisLoop(points, j, 1, 1, 1)
             inv == modInverse(b.denominator, PRIME_MODULUS)
             term == JSMod(points[j].y * b.numerator * inv.x, PRIME_MODULUS)
         IN  IF ~inv.ok
             THEN [ok |-> FALSE, secret |-> 0]
             ELSE LagrangeLoop(points, j + 1, JSMod(secret + term, PRIME_MODULUS))

\* shares: a sequence of [id, data].  The result says whether the call
\* returned (ok), where it threw (stage) and, when it returned, the string.
reconstructSecret(shares) ==
    LET points == [i \in 1 .. Len(shares) |-> ParsePoint(shares[i].data)]
    IN  IF \E i \in 1 .. Len(shares) : ~points[i].ok
        THEN [ok |-> FALSE, stage |-> "parse", hex |-> <<>>]
        ELSE LET r   == LagrangeLoop(points, 1, 0)
                 s   == IF r.secret < 0 THEN r.secret + PRIME_MODULUS ELSE r.secret
                 hex == ToHex(s)
             IN  IF ~r.ok
                 THEN [ok |-> FALSE, stage |-> "interpolate", hex |-> <<>>]
                 ELSE [ok |-> TRUE, stage |-> "done",
                       hex |-> IF Len(hex) % 2 # 0 THEN <<"0">> \o hex ELSE hex]


\* ------------------------------------------------------------------------
\* State
\* ------------------------------------------------------------------------
VARIABLES
    \* App state (useState hooks)
    config,                     \* { totalShares, threshold }
    logs,                       \* AuditLog[]
    fileToUpload,               \* File | null
    isEncrypting,
    generatedShares,            \* Share[]
    encryptedFile,              \* EncryptedFile | null
    isDistributionModalOpen,
    recoveryShares,             \* Record<number, string>
    recoveredFileUrl,           \* string | null
    isRecovering,
    recoveryError,              \* string | null
    \* the processEncryption / processRecovery call in flight, with the
    \* values its closure captured, suspended at an await
    encRun,
    recRun,
    \* the handler run by the last step and the service calls it made
    calls,
    \* calls of the pure functions under test
    splitArgs,      \* arguments of the splitSecret call under test
    splitRet,       \* its result
    reconArgs,      \* the share list passed to reconstructSecret
    reconRet,       \* its result
    target,         \* k - 1 observed shares and a candidate secret
    consistent,     \* the coefficient choices that emit the target
    invArgs,        \* arguments of the modInverse call under test
    invRet          \* its result

appVars ==
    <<config, logs, fileToUpload, isEncrypting, generatedShares, encryptedFile,
      isDistributionModalOpen, recoveryShares, recoveredFileUrl, isRecovering,
      recoveryError, encRun, recRun, calls>>

callVars ==
    <<splitArgs, splitRet, reconArgs, reconRet, target, consistent, invArgs, invRet>>

vars == <<appVars, callVars>>

None == [none |-> TRUE]

NotSearched == [done |-> FALSE, raws |-> {}]

Null == [null |-> TRUE]

Idle == [pc |-> "idle"]

\* the useState initial values
InitAppState ==
    /\ config = DEFAULT_CONFIG
    /\ logs = <<>>
    /\ fileToUpload = Null
    /\ isEncrypting = FALSE
    /\ generatedShares = <<>>
    /\ encryptedFile = Null
    /\ isDistributionModalOpen = FALSE
    /\ recoveryShares = <<>>
    /\ recoveredFileUrl = Null
    /\ isRecovering = FALSE
    /\ recoveryError = Null
    /\ encRun = Idle
    /\ recRun = Idle
    /\ calls = <<>>

NoCalls ==
    /\ splitArgs = None
    /\ splitRet = None
    /\ reconArgs = <<>>
    /\ reconRet = None
    /\ target = None
    /\ consistent = NotSearched
    /\ invArgs = None
    /\ invRet = None

\* ------------------------------------------------------------------------
\* Bounds of the model
\* ------------------------------------------------------------------------
\* shares per split in the split / reconstruct runs
MaxN == 4

\* threshold in the split / reconstruct runs
MaxK == 3

\* raw random draws lie within RawSpan of PRIME_MODULUS (so they wrap)
RawSpan == 3

RawDraws ==
    {r \in 0 .. ((2 ^ RANDOM_BITS) - 1) :
        r >= PRIME_MODULUS - RawSpan /\ r <= PRIME_MODULUS + RawSpan}

Keys == [1 .. KEY_BYTES -> ByteValues]

\* secrets handed to splitSecret: every field element in its natural hex
\* form, and every key as exportKeyToHex renders it
SecretHexes == {ToHex(s) : s \in Field} \cup {bufferToHex(b) : b \in Keys}

\* the elements of the index set S, ascending
RECURSIVE Ascending(_)
Ascending(S) ==
    IF S = {}
    THEN <<>>
    ELSE LET lo == CHOOSE i \in S : \A j \in S : i <= j
         IN  <<lo>> \o Ascending(S \ {lo})

\* ------------------------------------------------------------------------
\* Split / reconstruct runs: splitSecret, then reconstructSecret on a
\* sub-list of the shares it returned
\* ------------------------------------------------------------------------
InitSplit ==
    /\ InitAppState
    /\ \E n \in MIN_SHARES .. MaxN :
       \E k \in 2 .. (IF n < MaxK THEN n ELSE MaxK) :
       \E raws \in [1 .. (k - 1) -> RawDraws] :
       \E h \in SecretHexes :
           splitArgs = [secretHex |-> h, n |-> n, k |-> k, raws |-> raws]
    /\ splitRet = None
    /\ reconArgs = <<>>
    /\ reconRet = None
    /\ target = None
    /\ consistent = NotSearched
    /\ invArgs = None
    /\ invRet = None

CallSplit ==
    /\ splitArgs # None
    /\ splitRet = None
    /\ splitRet' = splitSecret(splitArgs.secretHex, splitArgs.n, splitArgs.k,
                               splitArgs.raws)
    /\ UNCHANGED <<splitArgs, reconArgs, reconRet, target, consistent, invArgs, invRet,
                   appVars>>

\* any sub-list of at least k of the returned shares
CallReconstructOnSplit ==
    /\ splitRet # None
    /\ splitRet.ok
    /\ reconRet = None
    /\ \E S \in SUBSET (1 .. splitArgs.n) :
          /\ Cardinality(S) >= splitArgs.k
          /\ reconArgs' = [i \in 1 .. Cardinality(S) |->
                              splitRet.shares[Ascending(S)[i]]]
    /\ reconRet' = reconstructSecret(reconArgs')
    /\ UNCHANGED <<splitArgs, splitRet, target, consistent, invArgs, invRet,
                   appVars>>

NextSplit == CallSplit \/ CallReconstructOnSplit

SpecSplit == InitSplit /\ [][NextSplit]_vars

\* ------------------------------------------------------------------------
\* Split runs alone: splitSecret for any n >= 1 and k >= 1, k > n included
\* ------------------------------------------------------------------------
InitGenerate ==
    /\ InitAppState
    /\ \E n \in 1 .. MaxN :
       \E k \in 1 .. MaxK :
       \E raws \in [1 .. (k - 1) -> RawDraws] :
       \E h \in SecretHexes :
           splitArgs = [secretHex |-> h, n |-> n, k |-> k, raws |-> raws]
    /\ splitRet = None
    /\ reconArgs = <<>>
    /\ reconRet = None
    /\ target = None
    /\ consistent = NotSearched
    /\ invArgs = None
    /\ invRet = None

NextGenerate == CallSplit

SpecGenerate == InitGenerate /\ [][NextGenerate]_vars


\* ------------------------------------------------------------------------
\* modInverse runs: every prime modulus up to PRIME_MODULUS, every a below it
\* ------------------------------------------------------------------------
PrimeModuli ==
    {m \in 2 .. PRIME_MODULUS : \A d \in 2 .. (m - 1) : m % d # 0}

InitInverse ==
    /\ InitAppState
    /\ \E m \in PrimeModuli :
       \E a \in 0 .. (m - 1) :
           invArgs = [a |-> a, m |-> m]
    /\ invRet = None
    /\ splitArgs = None
    /\ splitRet = None
    /\ reconArgs = <<>>
    /\ reconRet = None
    /\ target = None
    /\ consistent = [done |-> FALSE, raws |-> {}]

CallModInverse ==
    /\ invArgs # None
    /\ invRet = None
    /\ invRet' = modInverse(invArgs.a, invArgs.m)
    /\ UNCHANGED <<splitArgs, splitRet, reconArgs, reconRet, target, consistent,
                   invArgs, appVars>>

NextInverse == CallModInverse

SpecInverse == InitInverse /\ [][NextInverse]_vars

\* ------------------------------------------------------------------------
\* Reconstruct runs: reconstructSecret on share texts that need not come
\* from a split (any x, repeated x, x >= P, malformed text)
\* ------------------------------------------------------------------------
\* longest share list
MaxListLen == 3

\* x values 0 .. MaxX, and one x beyond the modulus
MaxX == 2

\* longest malformed-looking text
MaxTextLen == 3

XArgs == (0 .. MaxX) \cup {PRIME_MODULUS + 1}

YArgs == {0, 1, PRIME_MODULUS - 1}

PointTexts == {ToHex(x) \o <<"-">> \o ToHex(y) : x \in XArgs, y \in YArgs}

TextChars == {"1", "z", "-"}

AnyTexts == UNION {[1 .. l -> TextChars] : l \in 0 .. MaxTextLen}

AsShare(text) == [id |-> 0, data |-> text]

InitRecon ==
    /\ InitAppState
    /\ \/ \E l \in 1 .. MaxListLen :
          \E texts \in [1 .. l -> PointTexts] :
              reconArgs = [i \in 1 .. l |-> AsShare(texts[i])]
       \/ \E t \in AnyTexts :
              reconArgs = <<AsShare(t)>>
       \/ \E t \in AnyTexts :
          \E p \in PointTexts :
              \/ reconArgs = <<AsShare(t), AsShare(p)>>
              \/ reconArgs = <<AsShare(p), AsShare(t)>>
    /\ reconRet = None
    /\ splitArgs = None
    /\ splitRet = None
    /\ target = None
    /\ consistent = NotSearched
    /\ invArgs = None
    /\ invRet = None

CallReconstruct ==
    /\ reconRet = None
    /\ reconRet' = reconstructSecret(reconArgs)
    /\ UNCHANGED <<splitArgs, splitRet, reconArgs, target, consistent, invArgs, invRet,
                   appVars>>

\* the same call with the list in another order
CallReconstructReordered ==
    /\ reconRet # None
    /\ \E perm \in [1 .. Len(reconArgs) -> 1 .. Len(reconArgs)] :
          /\ \A i, j \in 1 .. Len(reconArgs) : perm[i] = perm[j] => i = j
          /\ reconArgs' = [i \in 1 .. Len(reconArgs) |-> reconArgs[perm[i]]]
    /\ reconArgs' # reconArgs
    /\ reconRet' = reconstructSecret(reconArgs')
    /\ UNCHANGED <<splitArgs, splitRet, target, consistent, invArgs, invRet,
                   appVars>>

NextRecon == CallReconstruct \/ CallReconstructReordered

SpecRecon == InitRecon /\ [][NextRecon]_vars

\* ------------------------------------------------------------------------
\* Corruption runs: reconstructSecret on a list of well-formed shares, then
\* on the list with the y value of one share replaced
\* ------------------------------------------------------------------------
\* x values 0 .. MaxCorruptX, and one x beyond the modulus
MaxCorruptX == 3

\* replacement y values: the MaxCorruptY + 1 lowest and the MaxCorruptY
\* highest field elements
MaxCorruptY == 2

CorruptXArgs == (0 .. MaxCorruptX) \cup {PRIME_MODULUS + 1}

CorruptYArgs ==
    {y \in Field : y <= MaxCorruptY \/ y >= PRIME_MODULUS - MaxCorruptY}

CleanTexts ==
    {ToHex(x) \o <<"-">> \o ToHex(y) : x \in CorruptXArgs, y \in YArgs}

InitCorrupt ==
    /\ InitAppState
    /\ \E l \in 1 .. MaxListLen :
       \E texts \in [1 .. l -> CleanTexts] :
           reconArgs = [i \in 1 .. l |-> AsShare(texts[i])]
    /\ reconRet = None
    /\ splitArgs = None
    /\ splitRet = None
    /\ target = None
    /\ consistent = NotSearched
    /\ invArgs = None
    /\ invRet = None

\* the share with its y replaced, in the format splitSecret writes
WithY(share, y) ==
    [id |-> share.id,
     data |-> SplitDash(share.data)[1] \o <<"-">> \o ToHex(y)]

\* the call on the list with one share given another y in 0 .. P - 1
CallReconstructCorrupted ==
    /\ reconRet # None
    /\ \A i \in 1 .. Len(reconArgs) : ParsePoint(reconArgs[i].data).y \in YArgs
    /\ \E c \in 1 .. Len(reconArgs) :
       \E y \in CorruptYArgs :
           /\ y # ParsePoint(reconArgs[c].data).y
           /\ reconArgs' = [i \in 1 .. Len(reconArgs) |->
                               IF i = c THEN WithY(reconArgs[i], y) ELSE reconArgs[i]]
    /\ reconRet' = reconstructSecret(reconArgs')
    /\ UNCHANGED <<splitArgs, splitRet, target, consistent, invArgs, invRet,
                   appVars>>

NextCorrupt == CallReconstruct \/ CallReconstructCorrupted

SpecCorrupt == InitCorrupt /\ [][NextCorrupt]_vars

\* ------------------------------------------------------------------------
\* Threshold runs: k - 1 observed shares, a candidate secret, and the
\* coefficient choices under which splitSecret emits the observed shares
\* ------------------------------------------------------------------------
\* most shares per split in the threshold runs (the threshold is at most this)
MaxTargetN == 3

\* observed y values: the MaxTargetY lowest and highest field elements
MaxTargetY == 1

\* candidate secrets 0 .. MaxCandidate (every value an AES key can take)
MaxCandidate == 15

TargetYs == {y \in Field : y < MaxTargetY \/ y >= PRIME_MODULUS - MaxTargetY}

Emits(secret, n, k, raws, xs, ys) ==
    LET r == splitSecret(ToHex(secret), n, k, raws)
    IN  /\ r.ok
        /\ \A i \in 1 .. Len(xs) :
              r.shares[xs[i]].data = ToHex(xs[i]) \o <<"-">> \o ToHex(ys[i])

InitThreshold ==
    /\ InitAppState
    /\ \E n \in MIN_SHARES .. MaxTargetN :
       \E k \in 2 .. n :
       \E S \in SUBSET (1 .. n) :
       \E ys \in [1 .. (k - 1) -> TargetYs] :
       \E s \in 0 .. MaxCandidate :
           /\ s < PRIME_MODULUS
           /\ Cardinality(S) = k - 1
           /\ target = [secret |-> s, n |-> n, k |-> k, xs |-> Ascending(S), ys |-> ys]
    /\ consistent = NotSearched
    /\ invArgs = None
    /\ invRet = None
    /\ splitArgs = None
    /\ splitRet = None
    /\ reconArgs = <<>>
    /\ reconRet = None

\* run splitSecret on the candidate secret under every coefficient choice
FindConsistent ==
    /\ target # None
    /\ ~consistent.done
    /\ consistent' =
          [done |-> TRUE,
           raws |-> {raws \in [1 .. (target.k - 1) -> Field] :
                        Emits(target.secret, target.n, target.k, raws,
                              target.xs, target.ys)}]
    /\ UNCHANGED <<splitArgs, splitRet, reconArgs, reconRet, target, invArgs, invRet,
                   appVars>>

NextThreshold == FindConsistent

SpecThreshold == InitThreshold /\ [][NextThreshold]_vars


\* ------------------------------------------------------------------------
\* AES-GCM helpers (cryptoService.ts); the cipher is an ideal AEAD: the
\* ciphertext opens only under the key bytes and the IV that made it
\* ------------------------------------------------------------------------
\* raw key lengths importKey accepts (AES-128 and AES-256, scaled)
AesKeyLengths == {KEY_BYTES \div 2, KEY_BYTES}

exportKeyToHex(key) == bufferToHex(key)

importKeyFromHex(hex) ==
    LET buffer == hexToBuffer(hex)
    IN  IF buffer.ok /\ Len(buffer.bytes) \in AesKeyLengths
        THEN [ok |-> TRUE, key |-> buffer.bytes]
        ELSE [ok |-> FALSE, key |-> <<>>]

encryptFile(file, key, iv) ==
    [encryptedData |-> [key |-> key, iv |-> iv, plain |-> file],
     iv |-> iv,
     hash |-> [sha256 |-> file]]

decryptFile(encryptedData, iv, key) ==
    IF encryptedData.key = key /\ encryptedData.iv = iv
    THEN [ok |-> TRUE, plain |-> encryptedData.plain]
    ELSE [ok |-> FALSE, plain |-> Null]

bufferToBase64(buffer) == [base64 |-> buffer]

base64ToBuffer(text) == text.base64

\* ------------------------------------------------------------------------
\* Bounds of the App runs
\* ------------------------------------------------------------------------
\* files the user can pick
MaxFiles == 2

\* encryptions started, slider moves and logged recovery clicks per run
MaxUploads == 1

MaxConfigChanges == 1

MaxRecoveries == 1

\* slider positions the user moves to (inside the slider's min..max)
MaxSlider == 3

\* keys the generator draws: leading byte 0 .. MaxKeyByte, every other byte
\* MaxKeyByte
MaxKeyByte == 1

\* IV bytes the generator draws are 0 .. MaxIvByte
MaxIvByte == 0

\* raw random draws of a coefficient are 1 .. MaxAppRaw
MaxAppRaw == 1

\* the share typed into input i is one of the payload's shares
\* i + 1 .. i + 1 + MaxShift (or a text that is no share)
MaxShift == 0

Files == {[name |-> f] : f \in 1 .. MaxFiles}

AppKeys == {key \in Keys : /\ key[1] <= MaxKeyByte
                           /\ \A i \in 2 .. KEY_BYTES : key[i] = MaxKeyByte}

AppIvs == {iv \in [1 .. IV_BYTES -> ByteValues] : \A i \in 1 .. IV_BYTES : iv[i] <= MaxIvByte}

AppRawDraws == {r \in 0 .. ((2 ^ RANDOM_BITS) - 1) : r >= 1 /\ r <= MaxAppRaw}

\* texts a user types besides share texts: blank, and not a share
JunkTexts == {<<" ">>, <<"z", "-", "1">>}

\* ------------------------------------------------------------------------
\* App (src/unnamed/part_000)
\* ------------------------------------------------------------------------
\* how many records of the log have one of these actions and actors
Logged(actions, actors) ==
    Cardinality({i \in 1 .. Len(logs) :
                    logs[i].action \in actions /\ logs[i].actor \in actors})

UploadRoom == Logged({"UPLOAD"}, {"Owner"}) < MaxUploads

ConfigRoom == Logged({"CONFIG_CHANGE"}, {"Admin"}) < MaxConfigChanges

\* every logged click leaves RECOVERY_ATTEMPT or the rejection record
RecoveryRoom ==
    Logged({"RECOVERY_ATTEMPT", "RECOVERY_FAILED"}, {"ConsensusWrapper"})
        < MaxRecoveries

addLogInFront(prev, action, count, actor) ==
    <<[action |-> action, count |-> count, actor |-> actor]>> \o prev

\* addLog: id and timestamp are left out; count is the number the details
\* text carries
addLog(prev, action, count, actor) ==
    Append(prev, [action |-> action, count |-> count, actor |-> actor])

Call(fn) == [fn |-> fn, shares |-> <<>>]

Min(a, b) == IF a < b THEN a ELSE b

\* Object.values(recoveryShares): integer keys in ascending order
ObjectValues(record) ==
    LET keys == Ascending(DOMAIN record)
    IN  [i \in 1 .. Len(keys) |-> record[keys[i]]]

\* .filter(s => s.trim() !== "").map(s => ({ id: 0, data: s.trim() }))
SharesListOf(record) ==
    LET kept == SelectSeq(ObjectValues(record), LAMBDA t : Trim(t) # <<>>)
    IN  [i \in 1 .. Len(kept) |-> AsShare(Trim(kept[i]))]

InsufficientBelowByTwo(sharesList, cfg) == Len(sharesList) < cfg.threshold - 1

\* sharesList.length < config.threshold
Insufficient(sharesList, cfg) == Len(sharesList) < cfg.threshold

ClampThresholdKept(threshold, n) == threshold

ClampThresholdToTotal(threshold, n) == n

\* const k = Math.min(config.threshold, n)
ClampThreshold(threshold, n) == Min(threshold, n)

\* handleFileUpload without setGeneratedShares([])
handleFileUploadKeepsShares(f) ==
    /\ fileToUpload' = f
    /\ encryptedFile' = Null
    /\ calls' = <<>>
    /\ UNCHANGED <<config, logs, isEncrypting, isDistributionModalOpen,
                   generatedShares, recoveryShares, recoveredFileUrl,
                   isRecovering, recoveryError, encRun, recRun, callVars>>

handleFileUpload(f) ==
    /\ fileToUpload' = f
    /\ generatedShares' = <<>>
    /\ encryptedFile' = Null
    /\ calls' = <<>>
    /\ UNCHANGED <<config, logs, isEncrypting, isDistributionModalOpen,
                   recoveryShares, recoveredFileUrl, isRecovering, recoveryError,
                   encRun, recRun, callVars>>

HandleFileUpload == \E f \in Files : handleFileUpload(f)

\* the handler up to its first await, with fileToUpload and config
\* captured by the closure
processEncryption ==
    /\ fileToUpload # Null
    /\ isEncrypting' = TRUE
    /\ encRun' = [pc |-> "generateAESKey", file |-> fileToUpload, config |-> config]
    /\ calls' = <<Call("processEncryption")>>
    /\ UNCHANGED <<config, logs, fileToUpload, generatedShares, encryptedFile,
                   isDistributionModalOpen, recoveryShares, recoveredFileUrl,
                   isRecovering, recoveryError, recRun, callVars>>

ProcessEncryptionAlwaysEnabled ==
    /\ UploadRoom
    /\ processEncryption

\* the click: the Encrypt button is disabled while isEncrypting
ProcessEncryption ==
    /\ ~isEncrypting
    /\ UploadRoom
    /\ processEncryption

GenerateKeyResolves ==
    /\ encRun.pc = "generateAESKey"
    /\ \E key \in AppKeys :
          encRun' = [pc |-> "encryptFile", file |-> encRun.file,
                     config |-> encRun.config, key |-> key]
    /\ calls' = <<>>
    /\ UNCHANGED <<config, logs, fileToUpload, isEncrypting, generatedShares,
                   encryptedFile, isDistributionModalOpen, recoveryShares,
                   recoveredFileUrl, isRecovering, recoveryError, recRun, callVars>>

EncryptFileResolves ==
    /\ encRun.pc = "encryptFile"
    /\ \E iv \in AppIvs :
          encRun' = [pc |-> "exportKeyToHex", file |-> encRun.file,
                     config |-> encRun.config, key |-> encRun.key,
                     sealed |-> encryptFile(encRun.file, encRun.key, iv)]
    /\ calls' = <<>>
    /\ UNCHANGED <<config, logs, fileToUpload, isEncrypting, generatedShares,
                   encryptedFile, isDistributionModalOpen, recoveryShares,
                   recoveredFileUrl, isRecovering, recoveryError, recRun, callVars>>

\* a run that leaves shares already on display alone
exportKeyResolvesKeepsShares ==
    /\ encRun.pc = "exportKeyToHex"
    /\ \E raws \in [1 .. (encRun.config.threshold - 1) -> AppRawDraws] :
          LET keyHex == exportKeyToHex(encRun.key)
              split  == splitSecret(keyHex, encRun.config.totalShares,
                                    encRun.config.threshold, raws)
          IN  /\ encryptedFile' =
                    [name |-> encRun.file,
                     data |-> bufferToBase64(encRun.sealed.encryptedData),
                     iv |-> bufferToHex(encRun.sealed.iv),
                     hash |-> encRun.sealed.hash,
                     split |-> [n |-> encRun.config.totalShares,
                                k |-> encRun.config.threshold,
                                shares |-> split.shares]]
              /\ generatedShares' = IF generatedShares = <<>>
                                    THEN split.shares
                                    ELSE generatedShares
    /\ logs' = addLog(logs, "UPLOAD", encRun.config.totalShares, "Owner")
    /\ isDistributionModalOpen' = TRUE
    /\ isEncrypting' = FALSE
    /\ encRun' = Idle
    /\ calls' = <<>>
    /\ UNCHANGED <<config, fileToUpload, recoveryShares, recoveredFileUrl,
                   isRecovering, recoveryError, recRun, callVars>>

\* the rest of the try block and the finally block.  The split field of
\* the stored object is not in the program: it records the split made in
\* the same step, for the properties below.
exportKeyResolves ==
    /\ encRun.pc = "exportKeyToHex"
    /\ \E raws \in [1 .. (encRun.config.threshold - 1) -> AppRawDraws] :
          LET keyHex == exportKeyToHex(encRun.key)
              split  == splitSecret(keyHex, encRun.config.totalShares,
                                    encRun.config.threshold, raws)
          IN  /\ encryptedFile' =
                    [name |-> encRun.file,
                     data |-> bufferToBase64(encRun.sealed.encryptedData),
                     iv |-> bufferToHex(encRun.sealed.iv),
                     hash |-> encRun.sealed.hash,
                     split |-> [n |-> encRun.config.totalShares,
                                k |-> encRun.config.threshold,
                                shares |-> split.shares]]
              /\ generatedShares' = split.shares
    /\ logs' = addLog(logs, "UPLOAD", encRun.config.totalShares, "Owner")
    /\ isDistributionModalOpen' = TRUE
    /\ isEncrypting' = FALSE
    /\ encRun' = Idle
    /\ calls' = <<>>
    /\ UNCHANGED <<config, fileToUpload, recoveryShares, recoveredFileUrl,
                   isRecovering, recoveryError, recRun, callVars>>

\* no more than MaxUploads payloads per run
ExportKeyResolves ==
    /\ UploadRoom
    /\ exportKeyResolves

EncryptionRejectsDropsShares ==
    /\ encRun.pc # "idle"
    /\ isEncrypting' = FALSE
    /\ encRun' = Idle
    /\ generatedShares' = <<>>
    /\ calls' = <<Call("alert")>>
    /\ UNCHANGED <<config, logs, fileToUpload, encryptedFile,
                   isDistributionModalOpen, recoveryShares, recoveredFileUrl,
                   isRecovering, recoveryError, recRun, callVars>>

\* an awaited platform call rejects: the catch block (console.error, alert)
\* and the finally block
EncryptionRejects ==
    /\ encRun.pc # "idle"
    /\ isEncrypting' = FALSE
    /\ encRun' = Idle
    /\ calls' = <<Call("alert")>>
    /\ UNCHANGED <<config, logs, fileToUpload, generatedShares, encryptedFile,
                   isDistributionModalOpen, recoveryShares, recoveredFileUrl,
                   isRecovering, recoveryError, recRun, callVars>>

\* the inputs are rendered while a payload is stored, one per threshold
handleShareInput(index, value) ==
    /\ recoveryShares' = [i \in (DOMAIN recoveryShares) \cup {index} |->
                             IF i = index THEN value ELSE recoveryShares[i]]
    /\ recoveryShares' # recoveryShares
    /\ calls' = <<>>
    /\ UNCHANGED <<config, logs, fileToUpload, isEncrypting, generatedShares,
                   encryptedFile, isDistributionModalOpen, recoveredFileUrl,
                   isRecovering, recoveryError, encRun, recRun, callVars>>

HandleShareInput ==
    /\ encryptedFile # Null
    /\ \E index \in 0 .. (config.threshold - 1) :
       \E value \in {generatedShares[i].data :
                          i \in {j \in 1 .. Len(generatedShares) :
                                    j > index /\ j <= index + 1 + MaxShift}}
                       \cup JunkTexts :
           handleShareInput(index, value)

RecoveryFailsStaysBusy(count, made) ==
    /\ recoveryError' = [message |-> "Decryption failed"]
    /\ logs' = addLog(made, "RECOVERY_FAILED", count, "System")
    /\ recRun' = Idle
    /\ UNCHANGED <<config, fileToUpload, isEncrypting, generatedShares,
                   encryptedFile, isDistributionModalOpen, recoveryShares,
                   recoveredFileUrl, isRecovering, encRun, callVars>>

RecoveryFailsRawError(count, made) ==
    /\ recoveryError' = [message |-> "SyntaxError"]
    /\ logs' = addLog(made, "RECOVERY_FAILED", count, "System")
    /\ isRecovering' = FALSE
    /\ recRun' = Idle
    /\ UNCHANGED <<config, fileToUpload, isEncrypting, generatedShares,
                   encryptedFile, isDistributionModalOpen, recoveryShares,
                   recoveredFileUrl, encRun, callVars>>

\* the catch and finally blocks of processRecovery
RecoveryFails(count, made) ==
    /\ recoveryError' = [message |-> "Decryption failed"]
    /\ logs' = addLog(made, "RECOVERY_FAILED", count, "System")
    /\ isRecovering' = FALSE
    /\ recRun' = Idle
    /\ UNCHANGED <<config, fileToUpload, isEncrypting, generatedShares,
                   encryptedFile, isDistributionModalOpen, recoveryShares,
                   recoveredFileUrl, encRun, callVars>>

NoPayloadNeverSeen(stored) == FALSE

\* !encryptedFile
NoPayload(stored) == stored = Null

\* the handler up to its first await (reconstructSecret is synchronous)
recoveryHandler ==
    /\ LET sharesList == SharesListOf(recoveryShares)
           attempt    == addLog(logs, "RECOVERY_ATTEMPT", Len(sharesList),
                                "ConsensusWrapper")
           keyHex     == reconstructSecret(sharesList)
       IN  IF NoPayload(encryptedFile)
           THEN /\ recoveryError' = [message |-> "No file is currently stored"]
                /\ calls' = <<Call("processRecovery")>>
                /\ UNCHANGED <<config, logs, fileToUpload, isEncrypting,
                               generatedShares, encryptedFile,
                               isDistributionModalOpen, recoveryShares,
                               recoveredFileUrl, isRecovering, encRun, recRun, callVars>>
           ELSE IF Insufficient(sharesList, config)
           THEN /\ recoveryError' = [message |-> "Need at least threshold shares"]
                /\ logs' = addLog(logs, "RECOVERY_FAILED", Len(sharesList),
                                  "ConsensusWrapper")
                /\ calls' = <<Call("processRecovery")>>
                /\ UNCHANGED <<config, fileToUpload, isEncrypting, generatedShares,
                               encryptedFile, isDistributionModalOpen,
                               recoveryShares, recoveredFileUrl, isRecovering,
                               encRun, recRun, callVars>>
           ELSE IF ~keyHex.ok
                   THEN /\ RecoveryFails(Len(sharesList), attempt)
                        /\ calls' = <<Call("processRecovery"),
                                      [fn |-> "reconstructSecret",
                                       shares |-> sharesList]>>
                   ELSE /\ isRecovering' = TRUE
                        /\ recoveryError' = Null
                        /\ logs' = attempt
                        /\ recRun' = [pc |-> "importKeyFromHex",
                                      encryptedFile |-> encryptedFile,
                                      config |-> config,
                                      sharesList |-> sharesList,
                                      keyHex |-> keyHex.hex]
                        /\ calls' = <<Call("processRecovery"),
                                      [fn |-> "reconstructSecret",
                                       shares |-> sharesList],
                                      Call("importKeyFromHex")>>
                        /\ UNCHANGED <<config, fileToUpload, isEncrypting,
                                       generatedShares, encryptedFile,
                                       isDistributionModalOpen, recoveryShares,
                                       recoveredFileUrl, encRun, callVars>>

\* no more than MaxRecoveries logged clicks per run
processRecovery ==
    /\ NoPayload(encryptedFile) \/ RecoveryRoom
    /\ recoveryHandler

\* the click: the Recover button is rendered while a payload is stored and
\* is disabled while isRecovering
ProcessRecovery ==
    /\ encryptedFile # Null
    /\ ~isRecovering
    /\ processRecovery

\* importKeyFromHex settles; on success the run goes on to decryptFile
ImportKeySettles ==
    /\ recRun.pc = "importKeyFromHex"
    /\ LET key == importKeyFromHex(recRun.keyHex)
       IN  IF ~key.ok
           THEN /\ RecoveryFails(Len(recRun.sharesList), logs)
                /\ calls' = <<>>
           ELSE /\ recRun' = [pc |-> "decryptFile",
                              encryptedFile |-> recRun.encryptedFile,
                              config |-> recRun.config,
                              sharesList |-> recRun.sharesList,
                              key |-> key.key]
                /\ calls' = <<Call("decryptFile")>>
                /\ UNCHANGED <<config, logs, fileToUpload, isEncrypting,
                               generatedShares, encryptedFile,
                               isDistributionModalOpen, recoveryShares,
                               recoveredFileUrl, isRecovering, recoveryError,
                               encRun, callVars>>

\* decryptFile settles: the end of the try block, or the catch block
DecryptSettles ==
    /\ recRun.pc = "decryptFile"
    /\ LET stored  == recRun.encryptedFile
           iv      == hexToBuffer(stored.iv)
           decrypted == decryptFile(base64ToBuffer(stored.data), iv.bytes, recRun.key)
       IN  IF ~decrypted.ok
           THEN /\ RecoveryFails(Len(recRun.sharesList), logs)
                /\ calls' = <<>>
           ELSE /\ recoveredFileUrl' = [blob |-> decrypted.plain]
                /\ logs' = addLog(logs, "RECOVERY_SUCCESS", Len(recRun.sharesList),
                                  "ConsensusWrapper")
                /\ isRecovering' = FALSE
                /\ recRun' = Idle
                /\ calls' = <<>>
                /\ UNCHANGED <<config, fileToUpload, isEncrypting, generatedShares,
                               encryptedFile, isDistributionModalOpen,
                               recoveryShares, recoveryError, encRun, callVars>>

\* onChange of the total-shares slider (min MIN_SHARES, max MAX_SHARES)
setTotalShares(n) ==
    /\ config' = [totalShares |-> n, threshold |-> ClampThreshold(config.threshold, n)]
    /\ config' # config
    /\ logs' = addLog(logs, "CONFIG_CHANGE", n, "Admin")
    /\ calls' = <<Call("setTotalShares")>>
    /\ UNCHANGED <<fileToUpload, isEncrypting, generatedShares, encryptedFile,
                   isDistributionModalOpen, recoveryShares, recoveredFileUrl,
                   isRecovering, recoveryError, encRun, recRun, callVars>>

\* onChange of the threshold slider (min 2, max config.totalShares)
setThreshold(k) ==
    /\ config' = [totalShares |-> config.totalShares, threshold |-> k]
    /\ config' # config
    /\ logs' = addLog(logs, "CONFIG_CHANGE", k, "Admin")
    /\ calls' = <<Call("setThreshold")>>
    /\ UNCHANGED <<fileToUpload, isEncrypting, generatedShares, encryptedFile,
                   isDistributionModalOpen, recoveryShares, recoveredFileUrl,
                   isRecovering, recoveryError, encRun, recRun, callVars>>

SetTotalShares ==
    /\ ConfigRoom
    /\ \E n \in MIN_SHARES .. Min(MAX_SHARES, MaxSlider) : setTotalShares(n)

SetThreshold ==
    /\ ConfigRoom
    /\ \E k \in 2 .. Min(config.totalShares, MaxSlider) : setThreshold(k)

InitApp == InitAppState /\ NoCalls

NextApp ==
    \/ HandleFileUpload
    \/ ProcessEncryption
    \/ GenerateKeyResolves
    \/ EncryptFileResolves
    \/ ExportKeyResolves
    \/ EncryptionRejects
    \/ HandleShareInput
    \/ ProcessRecovery
    \/ ImportKeySettles
    \/ DecryptSettles
    \/ SetTotalShares
    \/ SetThreshold

SpecApp == InitApp /\ [][NextApp]_vars

\* the promises of importKey and decrypt settle
SpecAppLive ==
    /\ SpecApp
    /\ WF_vars(ImportKeySettles)
    /\ WF_vars(DecryptSettles)

\* ------------------------------------------------------------------------
\* The App with one more encryption, started from the Owner tab while a
\* recovery is in flight (the tabs stay clickable)
\* ------------------------------------------------------------------------
EncryptDuringRecovery ==
    /\ ~isEncrypting
    /\ isRecovering
    /\ processEncryption

NextOverlap ==
    \/ NextApp
    \/ EncryptDuringRecovery

SpecOverlap == InitApp /\ [][NextOverlap]_vars

\* ------------------------------------------------------------------------
\* The Owner and Governance tabs with further payloads: the Encrypt button
\* is clicked again after a payload was stored
\* ------------------------------------------------------------------------
\* further encryptions per run
MaxReuploads == 2

ReuploadRoom ==
    /\ ~UploadRoom
    /\ Logged({"UPLOAD"}, {"Owner"}) < MaxUploads + MaxReuploads

ProcessEncryptionAgain ==
    /\ ~isEncrypting
    /\ ReuploadRoom
    /\ processEncryption

ExportKeyResolvesAgain ==
    /\ ReuploadRoom
    /\ exportKeyResolves

NextReupload ==
    \/ HandleFileUpload
    \/ ProcessEncryption
    \/ ProcessEncryptionAgain
    \/ GenerateKeyResolves
    \/ EncryptFileResolves
    \/ ExportKeyResolves
    \/ ExportKeyResolvesAgain
    \/ EncryptionRejects
    \/ SetTotalShares
    \/ SetThreshold

SpecReupload == InitApp /\ [][NextReupload]_vars

\* ------------------------------------------------------------------------
\* The App with further Recover clicks after the first logged one
\* ------------------------------------------------------------------------
\* further logged Recover clicks per run
MaxRetries == 1

RetryRoom ==
    /\ ~RecoveryRoom
    /\ Logged({"RECOVERY_ATTEMPT", "RECOVERY_FAILED"}, {"ConsensusWrapper"})
           < MaxRecoveries + MaxRetries

ProcessRecoveryAgain ==
    /\ encryptedFile # Null
    /\ ~isRecovering
    /\ RetryRoom
    /\ recoveryHandler

NextRetry ==
    \/ NextApp
    \/ ProcessRecoveryAgain

SpecRetry == InitApp /\ [][NextRetry]_vars

\* ------------------------------------------------------------------------
\* The App with processRecovery also invoked while no payload is stored.
\* No click does that: the Recover button is rendered only while
\* encryptedFile is set.
\* ------------------------------------------------------------------------
InvokeRecoveryWithoutPayload ==
    /\ encryptedFile = Null
    /\ processRecovery

NextHandler ==
    \/ NextApp
    \/ InvokeRecoveryWithoutPayload

SpecHandler == InitApp /\ [][NextHandler]_vars

\* ------------------------------------------------------------------------
\* The App with the download buttons of the distribution modal
\* ------------------------------------------------------------------------
\* share downloads per run
MaxDownloads == 1

\* the shares downloaded are #1 .. #MaxDownloadId
MaxDownloadId == 1

DownloadRoom == Logged({"DISTRIBUTE_SHARES"}, {"Owner"}) < MaxDownloads

\* the file download itself leaves the state alone; the record carries
\* the share's id
handleDownloadShare(share) ==
    /\ logs' = addLog(logs, "DISTRIBUTE_SHARES", share.id, "Owner")
    /\ calls' = <<Call("handleDownloadShare")>>
    /\ UNCHANGED <<config, fileToUpload, isEncrypting, generatedShares,
                   encryptedFile, isDistributionModalOpen, recoveryShares,
                   recoveredFileUrl, isRecovering, recoveryError, encRun,
                   recRun, callVars>>

\* one button per generated share, inside the modal
HandleDownloadShare ==
    /\ isDistributionModalOpen
    /\ DownloadRoom
    /\ \E i \in 1 .. Min(Len(generatedShares), MaxDownloadId) :
          handleDownloadShare(generatedShares[i])

NextAudit ==
    \/ NextApp
    \/ HandleDownloadShare

SpecAudit == InitApp /\ [][NextAudit]_vars

\* ------------------------------------------------------------------------
\* The two sliders alone, over their whole ranges
\* ------------------------------------------------------------------------
\* slider moves per run
MaxMoves == 3

MoveRoom == Logged({"CONFIG_CHANGE"}, {"Admin"}) < MaxMoves

MoveTotalShares ==
    /\ MoveRoom
    /\ \E n \in MIN_SHARES .. MAX_SHARES : setTotalShares(n)

MoveThreshold ==
    /\ MoveRoom
    /\ \E k \in 2 .. config.totalShares : setThreshold(k)

NextConfig ==
    \/ MoveTotalShares
    \/ MoveThreshold

SpecConfig == InitApp /\ [][NextConfig]_vars

\* ------------------------------------------------------------------------
\* Properties of the sharing scheme
\* ------------------------------------------------------------------------
\* the share list parses and its x values are pairwise distinct integers
DistinctX(shares) ==
    /\ \A i \in 1 .. Len(shares) : ParsePoint(shares[i].data).ok
    /\ \A i, j \in 1 .. Len(shares) :
          ParsePoint(shares[i].data).x = ParsePoint(shares[j].data).x => i = j

\* the share list parses and two of its entries carry the same x
RepeatedX(shares) ==
    /\ \A i \in 1 .. Len(shares) : ParsePoint(shares[i].data).ok
    /\ \E i, j \in 1 .. Len(shares) :
          i # j /\ ParsePoint(shares[i].data).x = ParsePoint(shares[j].data).x

SplitSecretValue == BigIntHex(splitArgs.secretHex).val

\* a reconstructSecret call on exactly k of the shares of the split
ReconstructedFromK ==
    /\ splitArgs # None
    /\ splitRet # None
    /\ reconRet # None
    /\ Len(reconArgs) = splitArgs.k

\* C2: for every secret below P, every 2 <= k <= n and every draw of the
\* k - 1 coefficients, reconstructSecret on any k of the shares returned by
\* splitSecret returns a hex string whose integer value is the secret.
C2_RoundTrip ==
    (ReconstructedFromK /\ SplitSecretValue < PRIME_MODULUS)
        => /\ reconRet.ok
           /\ BigIntHex(reconRet.hex).ok
           /\ BigIntHex(reconRet.hex).val = SplitSecretValue

C2_Witness ==
    /\ ReconstructedFromK
    /\ splitArgs.k = 3
    /\ splitArgs.n = 4
    /\ SplitSecretValue = PRIME_MODULUS - 1
    /\ randomBigInt(splitArgs.raws[2]) > 0
    /\ reconArgs[1].id = 2
    /\ reconRet.ok

\* C3: for k - 1 observed shares with distinct x in 1..n and any candidate
\* secret, exactly one choice of the coefficients a_1..a_{k-1} in [0, P)
\* makes splitSecret emit the observed shares.
C3_ThresholdSecurity ==
    consistent.done => Cardinality(consistent.raws) = 1

C3_Witness ==
    /\ consistent.done
    /\ target.k = 3
    /\ target.secret = MaxCandidate
    /\ target.ys = <<PRIME_MODULUS - 1, 0>>
    /\ consistent.raws # {}

KeyHexes == {bufferToHex(b) : b \in Keys}

\* C4: for every key of KEY_BYTES bytes, zero leading bytes included,
\* splitting the key's hex and reconstructing from any k shares returns a
\* hex string that decodes to exactly KEY_BYTES bytes equal to the key.
C4_FixedLengthKey ==
    (ReconstructedFromK /\ splitArgs.secretHex \in KeyHexes)
        => /\ reconRet.ok
           /\ hexToBuffer(reconRet.hex).ok
           /\ Len(hexToBuffer(reconRet.hex).bytes) = KEY_BYTES
           /\ hexToBuffer(reconRet.hex).bytes = hexToBuffer(splitArgs.secretHex).bytes

\* C5: for a share list with pairwise distinct x values, reconstructSecret
\* returns the same result whatever the order of the list.
C5_OrderIndependent ==
    [][(reconRet # None /\ DistinctX(reconArgs)) => reconRet' = reconRet]_vars

C5_Witness ==
    /\ reconRet # None
    /\ Len(reconArgs) = 3
    /\ DistinctX(reconArgs)
    /\ ParsePoint(reconArgs[1].data).x > ParsePoint(reconArgs[3].data).x
    /\ ParsePoint(reconArgs[2].data).x = 0
    /\ reconRet.ok
    /\ BigIntHex(reconRet.hex).val > 0

\* C6: a share list in which two shares carry the same x makes
\* reconstructSecret fail; it never returns a value.
C6_DuplicatesRejected ==
    (reconRet # None /\ RepeatedX(reconArgs)) => ~reconRet.ok

\* the text before the first "-" (the whole text when there is none)
RECURSIVE BeforeDash(_)
BeforeDash(t) ==
    IF t = <<>> \/ Head(t) = "-" THEN <<>> ELSE <<Head(t)>> \o BeforeDash(Tail(t))

HasDash(t) == \E i \in 1 .. Len(t) : t[i] = "-"

\* the text between the first "-" and the next one (or the end)
YPart(t) == BeforeDash(SubSeq(t, Len(BeforeDash(t)) + 2, Len(t)))

IsHexText(h) == h # <<>> /\ \A i \in 1 .. Len(h) : h[i] \in {"0", "1"}

\* no delimiter, or an empty or non-hexadecimal x or y part
Malformed(t) ==
    \/ ~HasDash(t)
    \/ ~IsHexText(BeforeDash(t))
    \/ ~IsHexText(YPart(t))

\* C7: when some share text has no "-", or an empty or non-hexadecimal x or
\* y part, reconstructSecret fails while parsing, before any interpolation
\* step, and returns no value.
C7_MalformedRejected ==
    (reconRet # None /\ \E i \in 1 .. Len(reconArgs) : Malformed(reconArgs[i].data))
        => ~reconRet.ok /\ reconRet.stage = "parse"

C7_Witness ==
    /\ reconRet # None
    /\ Len(reconArgs) = 2
    /\ ~Malformed(reconArgs[1].data)
    /\ reconArgs[2].data = <<"z", "-", "1">>
    /\ ~reconRet.ok

\* C1: a recovery run started with exactly k distinct shares of the stored
\* payload's split, under the config (n, k) the payload was encrypted with,
\* ends with recoveredFileUrl holding the original file, RECOVERY_SUCCESS
\* as the last record and no error, whatever key the generator drew.
SharesOfSplit(run) ==
    LET given == {run.sharesList[i].data : i \in 1 .. Len(run.sharesList)}
        made  == {run.encryptedFile.split.shares[i].data :
                     i \in 1 .. Len(run.encryptedFile.split.shares)}
    IN  /\ Len(run.sharesList) = run.encryptedFile.split.k
        /\ Cardinality(given) = Len(run.sharesList)
        /\ given \subseteq made

Qualified(run) ==
    /\ run.pc # "idle"
    /\ SharesOfSplit(run)
    /\ run.config = [totalShares |-> run.encryptedFile.split.n,
                     threshold |-> run.encryptedFile.split.k]

C1_EndToEndRecovery ==
    [][(Qualified(recRun) /\ recRun'.pc = "idle")
          => /\ recoveredFileUrl' = [blob |-> recRun.encryptedFile.name]
             /\ logs'[Len(logs')].action = "RECOVERY_SUCCESS"
             /\ recoveryError' = Null]_vars

\* C8: a click on Recover with a payload stored and fewer non-blank inputs
\* than config.threshold sets recoveryError, calls none of reconstructSecret,
\* importKeyFromHex and decryptFile, leaves isRecovering false and leaves
\* encryptedFile and recoveredFileUrl as they were.
NonBlankInputs ==
    Cardinality({i \in DOMAIN recoveryShares : Trim(recoveryShares[i]) # <<>>})

Clicked(after) == after # <<>> /\ after[1].fn = "processRecovery"

CryptoCalls(made) ==
    {i \in 1 .. Len(made) :
        made[i].fn \in {"reconstructSecret", "importKeyFromHex", "decryptFile"}}

C8_InsufficientRejected ==
    [][(/\ Clicked(calls')
        /\ encryptedFile # Null
        /\ NonBlankInputs < config.threshold)
          => /\ recoveryError' # Null
             /\ CryptoCalls(calls') = {}
             /\ ~isRecovering'
             /\ recRun' = Idle
             /\ encryptedFile' = encryptedFile
             /\ recoveredFileUrl' = recoveredFileUrl]_vars

C8_Witness ==
    /\ Clicked(calls)
    /\ encryptedFile # Null
    /\ NonBlankInputs >= 1
    /\ NonBlankInputs = config.threshold - 1
    /\ recoveryError = [message |-> "Need at least threshold shares"]
    /\ logs[Len(logs)].action = "RECOVERY_FAILED"

\* C9: whenever processRecovery calls reconstructSecret, the list it passes
\* has at least as many shares as the threshold the stored payload's key
\* was split with.
C9_OriginalThreshold ==
    \A i \in 1 .. Len(calls) :
        (calls[i].fn = "reconstructSecret" /\ encryptedFile # Null)
            => Len(calls[i].shares) >= encryptedFile.split.k

\* C10: after any sequence of slider moves,
\* 2 <= threshold <= totalShares <= MAX_SHARES.
C10_ConfigInvariant ==
    /\ 2 <= config.threshold
    /\ config.threshold <= config.totalShares
    /\ config.totalShares <= MAX_SHARES

\* one move of the total-shares slider, to below the threshold
C10_Witness ==
    /\ Len(logs) = 1
    /\ config.totalShares < DEFAULT_CONFIG.threshold
    /\ config.threshold = config.totalShares

\* C11: a move of the total-shares slider to n leaves threshold =
\* min(previous threshold, n): n when the threshold exceeded n, the previous
\* threshold otherwise; a move of the threshold slider leaves totalShares
\* as it was.
Ran(fn, after) == after # <<>> /\ after[1].fn = fn

C11_ConfigClamp ==
    [][/\ Ran("setTotalShares", calls')
          => config'.threshold = IF config.threshold > config'.totalShares
                                 THEN config'.totalShares
                                 ELSE config.threshold
       /\ Ran("setThreshold", calls')
          => config'.totalShares = config.totalShares]_vars

\* the total-shares slider went below the threshold and then up again, and
\* the threshold slider moved after that
C11_Witness ==
    /\ Len(logs) = 3
    /\ Ran("setThreshold", calls)
    /\ logs[1].count < DEFAULT_CONFIG.threshold
    /\ config.totalShares = MAX_SHARES
    /\ config.threshold > logs[1].count

\* C12: a processEncryption run that fails leaves encryptedFile and
\* generatedShares as they were: no step of a run changes one of them
\* before its last step, the failing step changes neither, and the
\* succeeding step sets both, from the same split.
RunStep == encRun.pc # "idle" /\ encRun' # encRun

C12_OwnerFlowAtomic ==
    [][/\ (RunStep /\ encRun'.pc # "idle")
          => UNCHANGED <<encryptedFile, generatedShares>>
       /\ Ran("alert", calls')
          => UNCHANGED <<encryptedFile, generatedShares>>
       /\ (RunStep /\ encRun'.pc = "idle" /\ ~Ran("alert", calls'))
          => /\ encryptedFile' # Null
             /\ generatedShares' = encryptedFile'.split.shares]_vars

\* a run failed while a payload and its shares were stored
C12_Witness ==
    /\ Ran("alert", calls)
    /\ encryptedFile # Null
    /\ generatedShares # <<>>
    /\ ~isEncrypting

\* C13: processEncryption starts only while no run of it is in flight, and
\* isEncrypting is true exactly while a run is in flight.
C13_OneEncryptionInFlight ==
    [][/\ Ran("processEncryption", calls') => (encRun.pc = "idle" /\ ~isEncrypting)
       /\ isEncrypting' <=> (encRun'.pc # "idle")]_vars

\* a run is in flight and the user has selected another file meanwhile
C13_Witness ==
    /\ isEncrypting
    /\ encRun.pc = "exportKeyToHex"
    /\ fileToUpload # encRun.file

\* C14: no state has a processRecovery run and a processEncryption run in
\* flight together.
C14_MutuallyExclusive == ~(isEncrypting /\ isRecovering)

\* C15: a processRecovery run that has set isRecovering sets it back to
\* false, whether key import and decryption succeed or fail; the Recover
\* button is enabled again from then on.
C15_RecoveryReturns == isRecovering ~> ~isRecovering

\* a run failed after its first await and isRecovering is false again
C15_Witness ==
    /\ ~isRecovering
    /\ recRun = Idle
    /\ calls = <<>>
    /\ logs # <<>>
    /\ logs[Len(logs)].action = "RECOVERY_FAILED"
    /\ logs[Len(logs)].actor = "System"

\* C16: every failed attempt (an encryption that fails, a recovery click
\* that is rejected or fails, a recovery run that fails later) appends
\* exactly one failure record, which carries the number of shares involved.
Appended == SubSeq(logs', Len(logs) + 1, Len(logs'))

FailureRecords(records, count) ==
    {i \in 1 .. Len(records) :
        records[i].action = "RECOVERY_FAILED" /\ records[i].count = count}

C16_FailuresAudited ==
    [][/\ Ran("alert", calls')
          => Cardinality(FailureRecords(Appended, 0)) = 1
       /\ (Clicked(calls') /\ recoveryError' # Null)
          => Cardinality(FailureRecords(Appended, NonBlankInputs)) = 1
       /\ (recRun.pc # "idle" /\ recRun'.pc = "idle" /\ recoveryError' # Null)
          => Cardinality(FailureRecords(Appended, Len(recRun.sharesList))) = 1]_vars

\* C17: when reconstructSecret, importKeyFromHex or decryptFile raises
\* inside processRecovery, the run ends with recoveryError = the fixed
\* "Decryption failed" message, recoveredFileUrl as it was, no
\* RECOVERY_SUCCESS record appended, and the handler finished
\* (isRecovering false, nothing in flight).
ReconstructRaises ==
    /\ Clicked(calls')
    /\ encryptedFile # Null
    /\ NonBlankInputs >= config.threshold
    /\ ~reconstructSecret(SharesListOf(recoveryShares)).ok

ImportRaises ==
    /\ recRun.pc = "importKeyFromHex"
    /\ recRun' # recRun
    /\ ~importKeyFromHex(recRun.keyHex).ok

DecryptRaises ==
    /\ recRun.pc = "decryptFile"
    /\ recRun' # recRun
    /\ ~decryptFile(base64ToBuffer(recRun.encryptedFile.data),
                    hexToBuffer(recRun.encryptedFile.iv).bytes, recRun.key).ok

C17_SingleFailureOutcome ==
    [][(ReconstructRaises \/ ImportRaises \/ DecryptRaises)
          => /\ recoveryError' = [message |-> "Decryption failed"]
             /\ recoveredFileUrl' = recoveredFileUrl
             /\ \A i \in 1 .. Len(Appended) : Appended[i].action # "RECOVERY_SUCCESS"
             /\ ~isRecovering'
             /\ recRun' = Idle]_vars

\* reconstructSecret raised on a share text that is no share
C17_Witness ==
    /\ Clicked(calls)
    /\ Len(calls) = 2
    /\ calls[2].fn = "reconstructSecret"
    /\ \E i \in 1 .. Len(calls[2].shares) : calls[2].shares[i].data \in JunkTexts
    /\ recoveryError = [message |-> "Decryption failed"]
    /\ ~isRecovering

\* C18: processRecovery running while encryptedFile is null sets
\* recoveryError and returns: no call of reconstructSecret,
\* importKeyFromHex or decryptFile, isRecovering not set, nothing in
\* flight, whatever share texts are entered.
C18_NoPayloadRejected ==
    [][(Clicked(calls') /\ encryptedFile = Null)
          => /\ recoveryError' # Null
             /\ CryptoCalls(calls') = {}
             /\ isRecovering' = isRecovering
             /\ recRun' = recRun]_vars

\* rejected although enough share texts were entered
C18_Witness ==
    /\ Clicked(calls)
    /\ encryptedFile = Null
    /\ NonBlankInputs >= config.threshold
    /\ recoveryError = [message |-> "No file is currently stored"]
    /\ ~isRecovering

\* C19: the x values emitted by one splitSecret invocation are disjoint
\* from the x values emitted by any other invocation, of the same or of
\* another secret.
EmittedXs(shares) == {ParsePoint(shares[i].data).x : i \in 1 .. Len(shares)}

C19_IndicesNotReused ==
    (splitRet # None /\ splitRet.ok)
        => \A h \in SecretHexes :
           \A n \in MIN_SHARES .. MaxN :
               LET second == splitSecret(h, n, MIN_SHARES,
                                         [i \in 1 .. (MIN_SHARES - 1) |-> 1])
               IN  EmittedXs(second.shares) \cap EmittedXs(splitRet.shares) = {}

\* C20: a step that changes logs keeps every record it held, in place, and
\* adds at the end one record per addLog call of the handler: one record,
\* or RECOVERY_ATTEMPT followed by RECOVERY_FAILED when the Recover click
\* fails before its first await.
IsPrefix(earlier, later) ==
    /\ Len(earlier) <= Len(later)
    /\ SubSeq(later, 1, Len(earlier)) = earlier

C20_AppendOnly ==
    [][logs' # logs
          => /\ IsPrefix(logs, logs')
             /\ \/ Len(Appended) = 1
                \/ /\ Len(Appended) = 2
                   /\ Clicked(calls')
                   /\ Appended[1].action = "RECOVERY_ATTEMPT"
                   /\ Appended[2].action = "RECOVERY_FAILED"]_vars

\* a log written by four handlers in turn
C20_Witness ==
    /\ Len(logs) = 4
    /\ logs[1].action = "UPLOAD"
    /\ logs[2].action = "DISTRIBUTE_SHARES"
    /\ logs[3].action = "CONFIG_CHANGE"
    /\ logs[4].action = "RECOVERY_ATTEMPT"

\* C21: splitSecret returns exactly n shares, the i-th with id i and data
\* hex(i) "-" hex(y_i), where y_i = (sum over j of coeffs[j] * i^j) mod P,
\* coeffs[0] the secret and coeffs[1..k-1] the drawn field elements; every
\* y_i lies in [0, P).
RECURSIVE PolynomialSum(_, _, _)
PolynomialSum(coeffs, x, j) ==
    IF j > Len(coeffs)
    THEN 0
    ELSE (coeffs[j] * (x ^ (j - 1))) + PolynomialSum(coeffs, x, j + 1)

DrawnCoeffs ==
    <<SplitSecretValue>> \o [i \in 1 .. (splitArgs.k - 1) |->
                                splitArgs.raws[i] % PRIME_MODULUS]

C21_ShareGeneration ==
    splitRet # None
        => /\ splitRet.ok
           /\ Len(splitRet.shares) = splitArgs.n
           /\ \A i \in 1 .. Len(splitRet.shares) :
                 LET y == PolynomialSum(DrawnCoeffs, i, 1) % PRIME_MODULUS
                 IN  /\ splitRet.shares[i].id = i
                     /\ splitRet.shares[i].data = ToHex(i) \o <<"-">> \o ToHex(y)
                     /\ y \in Field
                     /\ \A c \in 1 .. Len(splitRet.shares[i].data) :
                           splitRet.shares[i].data[c] \in {"0", "1", "-"}

\* a split with more coefficients than shares, its draws wrapping modulo P
C21_Witness ==
    /\ splitRet # None
    /\ splitArgs.n = 2
    /\ splitArgs.k = 3
    /\ splitArgs.raws[1] > PRIME_MODULUS
    /\ splitArgs.raws[2] > PRIME_MODULUS
    /\ SplitSecretValue = PRIME_MODULUS - 1

\* C22: for every secret below P and 2 <= k <= n, reconstructSecret on any
\* m of the shares of splitSecret(s, n, k), k <= m <= n, returns s: the
\* interpolation takes every point it is given.
C22_MoreThanK ==
    (/\ splitArgs # None
     /\ splitRet # None
     /\ reconRet # None
     /\ Len(reconArgs) >= splitArgs.k
     /\ SplitSecretValue < PRIME_MODULUS)
        => /\ reconRet.ok
           /\ BigIntHex(reconRet.hex).val = SplitSecretValue

\* all four shares of a split with threshold 2
C22_Witness ==
    /\ splitArgs # None
    /\ reconRet # None
    /\ splitArgs.k = 2
    /\ Len(reconArgs) = 4
    /\ randomBigInt(splitArgs.raws[1]) > 0
    /\ SplitSecretValue > 0
    /\ reconRet.ok

\* C23: for a prime modulus and 1 <= a < modulus, modInverse returns a
\* value r with 0 <= r < modulus and (a * r) mod modulus = 1.
C23_ModInverse ==
    (invRet # None /\ invArgs.a >= 1)
        => /\ invRet.ok
           /\ invRet.x >= 0
           /\ invRet.x < invArgs.m
           /\ (invArgs.a * invRet.x) % invArgs.m = 1

\* an inverse modulo PRIME_MODULUS that the loop leaves negative
C23_Witness ==
    /\ invRet # None
    /\ invArgs.m = PRIME_MODULUS
    /\ invArgs.a > 1
    /\ ModInverseLoop(invArgs.a, invArgs.m, 1, 0).x < 0
    /\ invRet.x > 0

\* the key the stored ciphertext was made with
PayloadKey == base64ToBuffer(encryptedFile.data).key

\* C24: whenever a payload is stored, the shares on display are a split of
\* the key that encrypted that payload: payload and shares come from the
\* same processEncryption run.
C24_NeverRePaired ==
    encryptedFile # Null
        => \E k \in 2 .. Len(generatedShares) :
           \E raws \in [1 .. (k - 1) -> AppRawDraws] :
               generatedShares =
                   splitSecret(exportKeyToHex(PayloadKey), Len(generatedShares),
                               k, raws).shares

\* a second payload, stored over the first without a file selection in
\* between and under a moved slider
C24_Witness ==
    /\ Logged({"UPLOAD"}, {"Owner"}) = MaxUploads + MaxReuploads
    /\ encryptedFile # Null
    /\ generatedShares # <<>>
    /\ logs[Len(logs)].action = "UPLOAD"
    /\ logs[Len(logs) - 1].action # "UPLOAD"
    /\ logs[Len(logs) - 1].action = "CONFIG_CHANGE"
    /\ encryptedFile.name = fileToUpload

\* C25: a payload is stored exactly when shares are on display; a step
\* that selects a file leaves neither, and a step that logs UPLOAD (a
\* successful encryption) leaves both.
C25_PresenceInvariant ==
    /\ encryptedFile # Null <=> generatedShares # <<>>
    /\ [][/\ encryptedFile' # Null <=> generatedShares' # <<>>
          /\ fileToUpload' # fileToUpload
                => (encryptedFile' = Null /\ generatedShares' = <<>>)
          /\ (Appended # <<>> /\ Appended[1].action = "UPLOAD")
                => (encryptedFile' # Null /\ generatedShares' # <<>>)]_vars

\* another file was selected after a payload was stored
C25_Witness ==
    /\ Logged({"UPLOAD"}, {"Owner"}) = 1
    /\ logs[Len(logs)].action = "UPLOAD"
    /\ encryptedFile = Null
    /\ generatedShares = <<>>
    /\ ~isEncrypting

\* C26: no state shows the success indication and the failure indication
\* together: recoveredFileUrl and recoveryError are never both set.
C26_OutcomesExclusive == ~(recoveredFileUrl # Null /\ recoveryError # Null)

\* what decrypting the stored payload with its own key and IV gives
StoredPlain ==
    decryptFile(base64ToBuffer(encryptedFile.data),
                hexToBuffer(encryptedFile.iv).bytes, PayloadKey).plain

\* C27: whenever a recovered asset is on offer, a payload is stored and
\* the asset is the decryption of that payload.
C27_RecoveredMatchesStored ==
    recoveredFileUrl # Null
        => /\ encryptedFile # Null
           /\ recoveredFileUrl = [blob |-> StoredPlain]

\* C28: whenever a payload is stored, it is the encryption of the file
\* held in fileToUpload.
C28_StoredMatchesSelected ==
    encryptedFile # Null
        => /\ encryptedFile.name = fileToUpload
           /\ StoredPlain = fileToUpload

\* C29: whenever shares are on display, there are config.totalShares of
\* them and they were split with threshold config.threshold.
C29_SharesAgreeWithConfig ==
    generatedShares # <<>>
        => /\ Len(generatedShares) = config.totalShares
           /\ encryptedFile # Null
           /\ encryptedFile.split.shares = generatedShares
           /\ encryptedFile.split.k = config.threshold

\* the x values of the shares are nonzero and pairwise distinct modulo P
CleanXs(shares) ==
    LET xs == [i \in 1 .. Len(shares) |->
                  ParsePoint(shares[i].data).x % PRIME_MODULUS]
    IN  /\ \A i \in 1 .. Len(shares) : xs[i] # 0
        /\ \A i, j \in 1 .. Len(shares) : xs[i] = xs[j] => i = j

\* positions where two share lists of one length differ
Differing(before, after) ==
    {i \in 1 .. Len(before) : after[i] # before[i]}

\* C30: for shares with nonzero, pairwise distinct x values modulo P,
\* giving exactly one share another y value in 0 .. P - 1 changes the
\* integer reconstructSecret returns.
C30_CorruptedShareChangesResult ==
    [][(/\ reconRet # None
        /\ CleanXs(reconArgs)
        /\ Len(reconArgs') = Len(reconArgs)
        /\ Cardinality(Differing(reconArgs, reconArgs')) = 1
        /\ \A i \in Differing(reconArgs, reconArgs') :
               /\ ParsePoint(reconArgs'[i].data).x = ParsePoint(reconArgs[i].data).x
               /\ ParsePoint(reconArgs'[i].data).y \in Field)
          => /\ reconRet.ok
             /\ reconRet'.ok
             /\ BigIntHex(reconRet'.hex).val # BigIntHex(reconRet.hex).val]_vars

\* three shares, one of them with x beyond the modulus, after the first
\* share was given a y that no original share has
C30_Witness ==
    /\ reconRet # None
    /\ Len(reconArgs) = MaxListLen
    /\ CleanXs(reconArgs)
    /\ \E i \in 1 .. Len(reconArgs) :
          ParsePoint(reconArgs[i].data).x > PRIME_MODULUS
    /\ ParsePoint(reconArgs[1].data).y \notin YArgs
    /\ reconRet.ok

====
